---- MODULE Spec2Model ----
(***************************************************************************)
(* A model of PeerManager (src/src/peers/PeerManager.ts): the registry of  *)
(* known peers, transitive peer discovery, best-height tracking and the    *)
(* selection of the best HTTP peer.                                        *)
(*                                                                         *)
(* Representation.  A string is the sequence of its characters, so that    *)
(* String.indexOf is computed and not assumed.  An optional value          *)
(* (peer.status, update.nonce, an array slot that may hold undefined) is a *)
(* sequence of length 0 (undefined) or 1.  The Map _peers is the sequence  *)
(* of its entries in insertion order, the order in which a JavaScript Map  *)
(* iterates.                                                               *)
(***************************************************************************)
EXTENDS Integers, Sequences, FiniteSets, TLC

VARIABLES
  peers,          \* this._peers : Map<string, Peer>
  bestHeight,     \* this.bestHeight
  bestBroadhash,  \* this.bestBroadhash
  last,           \* the last operation that ran, with its argument and result
  stableTicks,    \* the discovery ticks taken while the topology is stable
  tick            \* the call of updatePeers in progress: <<>>, or <<its frame>>

vars == <<peers, bestHeight, bestBroadhash, last, stableTicks, tick>>

----------------------------------------------------------------------------
(* Bounds of the model *)

\* status heights range over 0 .. MaxHeight
MaxHeight == 2

\* the discovery ticks counted under a stable topology
MaxTicks == 3

----------------------------------------------------------------------------
(* Strings *)

RECURSIVE FirstAtOrAfter(_, _, _)
\* the least i >= from with s[i+1 .. i+Len(sub)] = sub, or -1
FirstAtOrAfter(s, sub, from) ==
  IF from + Len(sub) > Len(s) THEN -1
  ELSE IF SubSeq(s, from + 1, from + Len(sub)) = sub THEN from
  ELSE FirstAtOrAfter(s, sub, from + 1)

\* String.prototype.indexOf
IndexOf(s, sub) == FirstAtOrAfter(s, sub, 0)

\* the literal "monitoring"
Marker == <<"m", "o", "n", "i", "t", "o", "r", "i", "n", "g">>

\* the literal "" the seed node is registered under
SeedNonce == <<>>

\* the constructor's ownNode argument
ownNode == [nonce |-> <<"o", "w", "n">>]

\* the nonces that occur: the seed's, two ordinary ones, the own node's, and
\* two that contain the marker (alone, and inside a longer nonce)
Nonces ==
  { SeedNonce, <<"a">>, <<"b">>, ownNode.nonce, Marker,
    <<"x">> \o Marker \o <<"1">> }

----------------------------------------------------------------------------
(* Configuration (config.json) and versions *)

\* versions are <<major, minor, patch>>
Versions == { <<0, 9, 0>>, <<1, 0, 0>>, <<1, 1, 0>> }

\* lexicographic >= on versions
VersionGte(v, w) ==
  \/ v[1] > w[1]
  \/ v[1] = w[1] /\ v[2] > w[2]
  \/ v[1] = w[1] /\ v[2] = w[2] /\ v[3] >= w[3]

\* semver.satisfies(version, range) for a range of the form ">=x.y.z"
Satisfies(version, range) == VersionGte(version, range.gte)

Addresses ==
  { [ip |-> "10.0.0.1", wsPort |-> 5000, httpPort |-> 4000],
    [ip |-> "10.0.0.2", wsPort |-> 5001, httpPort |-> 4001] }

\* the versions config.seedNode.version may name
SeedVersions == { <<0, 9, 0>>, <<1, 0, 0>> }

\* config.json without seedNode.version, which Init chooses
config ==
  [ seedNode   |-> [host |-> "10.0.0.1", wsPort |-> 5000, httpPort |-> 4000],
    minVersion |-> [gte |-> <<1, 0, 0>>],
    nethash    |-> "net" ]

\* PeerInfo
PeerInfo(addr, version, nonce) ==
  [ip |-> addr.ip, wsPort |-> addr.wsPort, httpPort |-> addr.httpPort,
   version |-> version, nonce |-> nonce]

PeerInfos == { PeerInfo(a, v, n) : a \in Addresses, v \in Versions, n \in Nonces }

Addr1 == [ip |-> "10.0.0.1", wsPort |-> 5000, httpPort |-> 4000]
Addr2 == [ip |-> "10.0.0.2", wsPort |-> 5001, httpPort |-> 4001]

NonceA == <<"a">>
NonceB == <<"b">>
NonceMon == <<"x">> \o Marker \o <<"1">>

\* peers as other nodes report them
A1   == PeerInfo(Addr1, <<1, 0, 0>>, NonceA)
AOld == PeerInfo(Addr2, <<0, 9, 0>>, NonceA)
B1   == PeerInfo(Addr1, <<1, 1, 0>>, NonceB)
B2   == PeerInfo(Addr2, <<1, 0, 0>>, NonceB)
BOld == PeerInfo(Addr2, <<0, 9, 0>>, NonceB)
Own  == PeerInfo(Addr2, <<1, 0, 0>>, ownNode.nonce)
Mon  == PeerInfo(Addr1, <<1, 1, 0>>, Marker)
Mon1 == PeerInfo(Addr2, <<1, 0, 0>>, NonceMon)

\* a peer list with an undefined entry, the own node, a monitoring node,
\* the same nonce twice and a version that is too old
Mixed == << <<>>, <<Own>>, <<B2>>, <<Mon1>>, <<B1>>, <<AOld>> >>

----------------------------------------------------------------------------
(* The Peer of libargus, as far as PeerManager uses it *)

Broadhashes == {"h1", "h2"}

\* a defined peer.status
Statuses == [height : 0 .. MaxHeight, broadhash : Broadhashes]

\* new Peer(options, ownNode): no status yet, no further peers known, the
\* HTTP API not seen, no inbound connection
NewPeer(options) ==
  [ options           |-> options,
    status            |-> <<>>,
    peers             |-> <<>>,
    httpActive        |-> FALSE,
    wsServerConnected |-> FALSE ]

\* Peer.handleStatusUpdate(update): the peer records the reported status
PeerHandleStatusUpdate(peer, update) ==
  [peer EXCEPT !.status = << [height |-> update.height,
                              broadhash |-> update.broadhash] >>]

\* Peer.setWebsocketServerConnected(connected)
PeerSetWebsocketServerConnected(peer, connected) ==
  [peer EXCEPT !.wsServerConnected = connected]

----------------------------------------------------------------------------
(* Map<string, Peer> *)

MapHas(m, key) == \E i \in 1 .. Len(m) : m[i].key = key

MapIndex(m, key) == CHOOSE i \in 1 .. Len(m) : m[i].key = key

\* Map.get, for a key the map has
MapGet(m, key) == m[MapIndex(m, key)].value

\* Map.set: a present key keeps its place, a new key goes last
MapSet(m, key, value) ==
  IF MapHas(m, key)
  THEN [m EXCEPT ![MapIndex(m, key)] = [key |-> key, value |-> value]]
  ELSE Append(m, [key |-> key, value |-> value])

\* Array.from(map.values())
MapValues(m) == [i \in 1 .. Len(m) |-> m[i].value]

MapKeys(m) == { m[i].key : i \in 1 .. Len(m) }

----------------------------------------------------------------------------
(* addPeer *)

\* IsOwnOrMonitoring without the test for "monitoring"
IsOwn(peer) == peer.nonce = ownNode.nonce

\* peer.nonce === this.ownNode.nonce || peer.nonce.indexOf("monitoring") !== -1
IsOwnOrMonitoring(peer) ==
  peer.nonce = ownNode.nonce \/ IndexOf(peer.nonce, Marker) # -1

\* AlreadyConnected without the lookup
NeverConnected(m, peer) == FALSE

\* this._peers.has(peer.nonce)
AlreadyConnected(m, peer) == MapHas(m, peer.nonce)

\* SatisfiesMinVersion without the version check
SatisfiesAnyVersion(peer) == TRUE

\* semver.satisfies(peer.version, config.minVersion)
SatisfiesMinVersion(peer) == Satisfies(peer.version, config.minVersion)

\* the Peer addPeer constructs
PeerOf(peer) ==
  NewPeer([ip |-> peer.ip, wsPort |-> peer.wsPort, httpPort |-> peer.httpPort,
           nethash |-> config.nethash, nonce |-> peer.nonce])

\* the map after addPeer(peer)
addPeer(m, peer) ==
  IF IsOwnOrMonitoring(peer) THEN m
  ELSE IF AlreadyConnected(m, peer) THEN m
  ELSE IF ~SatisfiesMinVersion(peer) THEN m
  ELSE MapSet(m, peer.nonce, PeerOf(peer))

----------------------------------------------------------------------------
(* updatePeers *)

RECURSIVE Flatten(_)
\* _.flatten of an array of arrays
Flatten(lists) ==
  IF lists = <<>> THEN <<>> ELSE Head(lists) \o Flatten(Tail(lists))

RECURSIVE WithoutUndefined(_)
\* _.without(array, undefined): the defined elements, in order
WithoutUndefined(slots) ==
  IF slots = <<>> THEN <<>>
  ELSE IF Head(slots) = <<>> THEN WithoutUndefined(Tail(slots))
  ELSE <<Head(slots)[1]>> \o WithoutUndefined(Tail(slots))

\* peerList: every registered peer's further peers, in the map's order
PeerList(m) ==
  WithoutUndefined(Flatten([i \in 1 .. Len(m) |-> m[i].value.peers]))

\* IsNewBest without the comparison with the best height so far
IsNewBestAnyStatus(peer, height) == peer.status # <<>>

\* IsNewBest with >= for >
IsNewBestOrTie(peer, height) ==
  peer.status # <<>> /\ peer.status[1].height >= height

\* peer.status && peer.status.height > this.bestHeight
IsNewBest(peer, height) ==
  peer.status # <<>> /\ peer.status[1].height > height

\* ScanBest that looks at the first registered peer only
ScanFirst(values, best) ==
  IF values = <<>> THEN best
  ELSE IF IsNewBest(Head(values), best.height)
  THEN [height    |-> Head(values).status[1].height,
        broadhash |-> Head(values).status[1].broadhash]
  ELSE best

RECURSIVE ScanBest(_, _)
\* the loop over this._peers.values() that keeps bestHeight and bestBroadhash
ScanBest(values, best) ==
  IF values = <<>> THEN best
  ELSE ScanBest(Tail(values),
                IF IsNewBest(Head(values), best.height)
                THEN [height    |-> Head(values).status[1].height,
                      broadhash |-> Head(values).status[1].broadhash]
                ELSE best)

\* _.find(Array.from(this._peers.values()), item => item.options.nonce === peer.nonce)
FoundInPeers(m, peer) ==
  \E i \in 1 .. Len(m) : m[i].value.options.nonce = peer.nonce

\* FoundInNewPeers that finds nothing
FoundInNoNewPeers(newPeers, peer) == FALSE

\* _.find(newPeers, item => item.nonce === peer.nonce || peer.nonce === this.ownNode.nonce)
FoundInNewPeers(newPeers, peer) ==
  \E i \in 1 .. Len(newPeers) :
    newPeers[i].nonce = peer.nonce \/ peer.nonce = ownNode.nonce

RECURSIVE Discover(_, _, _)
\* the loop over peerList that collects newPeers
Discover(m, peerList, newPeers) ==
  IF peerList = <<>> THEN newPeers
  ELSE Discover(m, Tail(peerList),
                IF FoundInPeers(m, Head(peerList)) THEN newPeers
                ELSE IF FoundInNewPeers(newPeers, Head(peerList)) THEN newPeers
                ELSE Append(newPeers, Head(peerList)))

\* newPeers of a tick that starts with the map m
NewPeers(m) == Discover(m, PeerList(m), <<>>)

\* the peer list each node of a small network serves: the seed names a, a
\* names b and itself, b names the seed and a
Network(nonce) ==
  IF nonce = SeedNonce THEN << <<A1>>, <<>> >>
  ELSE IF nonce = NonceA THEN << <<B1>>, <<A1>> >>
  ELSE IF nonce = NonceB THEN << <<PeerInfo(Addr1, <<1, 0, 0>>, SeedNonce)>>, <<A1>> >>
  ELSE <<>>

RECURSIVE ConnectEach(_, _)
\* addPeer for each candidate of a list
ConnectEach(m, candidates) ==
  IF candidates = <<>> THEN m
  ELSE ConnectEach(addPeer(m, Head(candidates)), Tail(candidates))

\* Connect that goes on, in the same tick, with the peers that the nodes of
\* newPeers serve
ConnectThrough(m, newPeers) ==
  ConnectEach(ConnectEach(m, newPeers),
              WithoutUndefined(Flatten([i \in 1 .. Len(newPeers) |->
                                          Network(newPeers[i].nonce)])))

\* Connect that stops after the first of newPeers
ConnectFirst(m, newPeers) ==
  IF newPeers = <<>> THEN m ELSE addPeer(m, Head(newPeers))

RECURSIVE Connect(_, _)
\* the loop that calls addPeer for each of newPeers
Connect(m, newPeers) ==
  IF newPeers = <<>> THEN m
  ELSE Connect(addPeer(m, Head(newPeers)), Tail(newPeers))

----------------------------------------------------------------------------
(* getBestHTTPPeer *)

\* peer.status ? peer.status.height : 0
HeightOf(peer) == IF peer.status # <<>> THEN peer.status[1].height ELSE 0

\* IsBetter with > for >=
IsStrictlyBetter(peer, height) == HeightOf(peer) > height

\* IsBetter that compares with the initial 0, not with the running maximum
IsBetterThanZero(peer, height) == HeightOf(peer) >= 0

\* (peer.status ? peer.status.height : 0) >= bestHeight
IsBetter(peer, height) == HeightOf(peer) >= height

RECURSIVE ScanHTTP(_, _)
\* the loop over shuffledPeers; best.peer is bestPeer, undefined when <<>>
ScanHTTP(shuffledPeers, best) ==
  IF shuffledPeers = <<>> THEN best
  ELSE ScanHTTP(Tail(shuffledPeers),
                IF ~Head(shuffledPeers).httpActive THEN best
                ELSE IF IsBetter(Head(shuffledPeers), best.height)
                THEN [peer   |-> <<Head(shuffledPeers)>>,
                      height |-> HeightOf(Head(shuffledPeers))]
                ELSE best)

\* the result for one outcome of _.shuffle: <<peer>>, or <<>> when it throws
\* Error("No best peer found")
getBestHTTPPeer(shuffledPeers) ==
  ScanHTTP(shuffledPeers, [peer |-> <<>>, height |-> 0]).peer

\* Shuffles without the shuffle: the array as it is
NoShuffle(array) == { array }

\* the outcomes of _.shuffle(array): its permutations
Shuffles(array) ==
  { [i \in 1 .. Len(array) |-> array[f[i]]] :
      f \in { g \in [1 .. Len(array) -> 1 .. Len(array)] :
                \A i, j \in 1 .. Len(array) : g[i] = g[j] => i = j } }

----------------------------------------------------------------------------
(* handleStatusUpdate and wsServerConnectionChanged *)

\* NoNonce that takes the empty string for a nonce
NonceAbsent(update) == update.nonce = <<>>

\* !update.nonce: the nonce is absent or the empty string
NoNonce(update) == update.nonce = <<>> \/ update.nonce[1] = <<>>

\* the map after handleStatusUpdate(update)
handleStatusUpdate(m, update) ==
  IF NoNonce(update) THEN m
  ELSE IF ~MapHas(m, update.nonce[1]) THEN m
  ELSE MapSet(m, update.nonce[1],
              PeerHandleStatusUpdate(MapGet(m, update.nonce[1]), update))

\* wsServerConnectionChanged that sets the flag of every registered peer
wsServerConnectionChangedForAll(m, nonce, connected) ==
  IF ~MapHas(m, nonce) THEN m
  ELSE [i \in 1 .. Len(m) |->
          [key   |-> m[i].key,
           value |-> PeerSetWebsocketServerConnected(m[i].value, connected)]]

\* wsServerConnectionChanged that drops the peer when it disconnects
wsServerDisconnectEvicts(m, nonce, connected) ==
  IF ~MapHas(m, nonce) THEN m
  ELSE IF connected
  THEN MapSet(m, nonce, PeerSetWebsocketServerConnected(MapGet(m, nonce), TRUE))
  ELSE SelectSeq(m, LAMBDA entry : entry.key # nonce)

\* the map after wsServerConnectionChanged(nonce, connected)
wsServerConnectionChanged(m, nonce, connected) ==
  IF ~MapHas(m, nonce) THEN m
  ELSE MapSet(m, nonce,
              PeerSetWebsocketServerConnected(MapGet(m, nonce), connected))

\* the updates the socket server may deliver: any status, for any nonce or
\* for none
Updates ==
  [nonce : {<<>>} \cup { <<n>> : n \in Nonces },
   height : 0 .. MaxHeight, broadhash : Broadhashes]

----------------------------------------------------------------------------
(* State machine *)

\* the seed node the constructor adds
SeedInfo(version) ==
  [ip |-> config.seedNode.host, wsPort |-> config.seedNode.wsPort,
   httpPort |-> config.seedNode.httpPort, version |-> version,
   nonce |-> SeedNonce]

\* the state the constructor leaves
Init ==
  /\ bestHeight = 0
  /\ bestBroadhash = ""
  /\ \E version \in SeedVersions :
       /\ peers = addPeer(<<>>, SeedInfo(version))
       /\ last = [op |-> "constructor", seedNode |-> SeedInfo(version)]
  /\ stableTicks = 0
  /\ tick = <<>>

\* a call of the public addPeer
AddPeer(peer) ==
  /\ peers' = addPeer(peers, peer)
  /\ last' = [op |-> "addPeer", nonce |-> peer.nonce]
  /\ UNCHANGED <<bestHeight, bestBroadhash, stableTicks, tick>>

\* what updatePeers does to the manager
updatePeers ==
  LET best == ScanBest(MapValues(peers),
                       [height |-> bestHeight, broadhash |-> bestBroadhash])
      newPeers == NewPeers(peers)
  IN  /\ bestHeight' = best.height
      /\ bestBroadhash' = best.broadhash
      /\ peers' = Connect(peers, newPeers)
      /\ last' = [op |-> "updatePeers", newPeers |-> newPeers]

\* one discovery tick of the interval timer
UpdatePeers ==
  /\ updatePeers
  /\ UNCHANGED <<stableTicks, tick>>

\* the socket server's "status" event
HandleStatusUpdate(update) ==
  /\ peers' = handleStatusUpdate(peers, update)
  /\ last' = [op |-> "handleStatusUpdate", nonce |-> update.nonce]
  /\ UNCHANGED <<bestHeight, bestBroadhash, stableTicks, tick>>

\* the socket server's "connect" and "disconnect" events
WsServerConnectionChanged(nonce, connected) ==
  /\ peers' = wsServerConnectionChanged(peers, nonce, connected)
  /\ last' = [op |-> "wsServerConnectionChanged", nonce |-> nonce,
              connected |-> connected]
  /\ UNCHANGED <<bestHeight, bestBroadhash, stableTicks, tick>>

\* a call of getBestHTTPPeer, for every outcome of the shuffle; ret is
\* <<the peer returned>>, or <<>> when the call throws
GetBestHTTPPeer ==
  /\ \E shuffledPeers \in Shuffles(MapValues(peers)) :
       last' = [op |-> "getBestHTTPPeer", ret |-> getBestHTTPPeer(shuffledPeers)]
  /\ UNCHANGED <<peers, bestHeight, bestBroadhash, stableTicks, tick>>

\* a call of getBestHeight
GetBestHeight ==
  /\ last' = [op |-> "getBestHeight", ret |-> bestHeight]
  /\ UNCHANGED <<peers, bestHeight, bestBroadhash, stableTicks, tick>>

\* a registered Peer learns its node's peer list
PeerLearnsPeers(nonce, list) ==
  /\ MapHas(peers, nonce)
  /\ peers' = MapSet(peers, nonce, [MapGet(peers, nonce) EXCEPT !.peers = list])
  /\ last' = [op |-> "Peer"]
  /\ UNCHANGED <<bestHeight, bestBroadhash, stableTicks, tick>>

\* a registered Peer learns its node's status by its own request
PeerLearnsStatus(nonce, status) ==
  /\ MapHas(peers, nonce)
  /\ peers' = MapSet(peers, nonce,
                     [MapGet(peers, nonce) EXCEPT !.status = <<status>>])
  /\ last' = [op |-> "Peer"]
  /\ UNCHANGED <<bestHeight, bestBroadhash, stableTicks, tick>>

\* a registered Peer finds its node's HTTP API reachable or not
PeerHttpActive(nonce, active) ==
  /\ MapHas(peers, nonce)
  /\ peers' = MapSet(peers, nonce,
                     [MapGet(peers, nonce) EXCEPT !.httpActive = active])
  /\ last' = [op |-> "Peer"]
  /\ UNCHANGED <<bestHeight, bestBroadhash, stableTicks, tick>>

\* every step, with the inputs drawn from the sets of in
NextOn(in) ==
  \/ \E peer \in in.infos : AddPeer(peer)
  \/ UpdatePeers
  \/ \E update \in in.updates : HandleStatusUpdate(update)
  \/ \E e \in in.events : WsServerConnectionChanged(e[1], e[2])
  \/ GetBestHTTPPeer
  \/ GetBestHeight
  \/ \E e \in in.learnsPeers : PeerLearnsPeers(e[1], e[2])
  \/ \E e \in in.learnsStatus : PeerLearnsStatus(e[1], e[2])
  \/ \E e \in in.httpActive : PeerHttpActive(e[1], e[2])

----------------------------------------------------------------------------
(* Inputs *)

\* the inputs of Spec: every kind of candidate, little else
DiscoveryInputs ==
  [ infos        |-> { SeedInfo(<<1, 0, 0>>), A1, AOld, B1, B2, BOld, Own, Mon, Mon1 },
    updates      |-> { u \in Updates : /\ u.nonce \in { <<>>, <<NonceA>> }
                                       /\ u.height = 1 /\ u.broadhash = "h1" },
    events       |-> { <<NonceA, TRUE>>, <<Marker, TRUE>> },
    learnsPeers  |-> ({SeedNonce} \X { << <<A1>> >>, << <<B1>> >>, Mixed })
                       \cup ({NonceA} \X { << <<B1>> >>, << <<B2>> >> })
                       \cup ({NonceB} \X { Mixed, << <<A1>> >> }),
    learnsStatus |-> { <<NonceA, [height |-> 1, broadhash |-> "h1"]>> },
    httpActive   |-> { <<NonceA, TRUE>> } ]

Next == NextOn(DiscoveryInputs)

Spec == Init /\ [][Next]_vars

\* the inputs of SpecStatus: every status for every nonce, two peers
StatusInputs ==
  [ infos        |-> { A1, Mon },
    updates      |-> Updates,
    events       |-> { <<NonceA, TRUE>> },
    learnsPeers  |-> { <<SeedNonce, << <<A1>> >> >> },
    learnsStatus |-> {SeedNonce} \X Statuses,
    httpActive   |-> { <<NonceA, TRUE>> } ]

SpecStatus == Init /\ [][NextOn(StatusInputs)]_vars

\* the inputs of SpecSelect: three peers, each with any height and with the
\* HTTP API on or off
SelectInputs ==
  [ infos        |-> { B1 },
    updates      |-> { u \in Updates : /\ u.nonce \in { <<NonceA>>, <<NonceB>> }
                                       /\ u.broadhash = "h1" },
    events       |-> { <<Marker, TRUE>> },
    learnsPeers  |-> { <<SeedNonce, << <<A1>> >> >> },
    learnsStatus |-> {SeedNonce} \X { st \in Statuses : st.broadhash = "h1" },
    httpActive   |-> { SeedNonce, NonceA, NonceB } \X BOOLEAN ]

SpecSelect == Init /\ [][NextOn(SelectInputs)]_vars

\* the inputs of SpecConnect: connect and disconnect events for registered
\* and other nonces, three peers
ConnectInputs ==
  [ infos        |-> { B1 },
    updates      |-> { u \in Updates : /\ u.nonce \in { <<NonceA>>, <<NonceB>> }
                                       /\ u.height = 1 /\ u.broadhash = "h1" },
    events       |-> { SeedNonce, NonceA, NonceB, ownNode.nonce } \X BOOLEAN,
    learnsPeers  |-> { <<SeedNonce, << <<A1>> >> >>, <<NonceA, << <<B2>> >> >> },
    learnsStatus |-> { <<SeedNonce, [height |-> 2, broadhash |-> "h2"]>> },
    httpActive   |-> { NonceA, NonceB } \X BOOLEAN ]

SpecConnect == Init /\ [][NextOn(ConnectInputs)]_vars

\* the inputs of SpecNetwork: each registered Peer learns the list its node
\* serves in Network
NetworkInputs ==
  [ infos        |-> { B2 },
    updates      |-> { u \in Updates : /\ u.nonce = <<NonceB>>
                                       /\ u.height = 1 /\ u.broadhash = "h1" },
    events       |-> { <<NonceA, TRUE>>, <<NonceA, FALSE>> },
    learnsPeers  |-> { <<nonce, Network(nonce)>> : nonce \in { SeedNonce, NonceA, NonceB } },
    learnsStatus |-> { <<SeedNonce, [height |-> 1, broadhash |-> "h2"]>> },
    httpActive   |-> { <<NonceB, TRUE>> } ]

SpecNetwork == Init /\ [][NextOn(NetworkInputs)]_vars

----------------------------------------------------------------------------
(* A stable topology: a node's peer list never changes, and a registered   *)
(* Peer knows it before the next discovery tick.  Every peer that nodes    *)
(* report is admissible.                                                   *)

Undef == << <<>> >>

StableInputs ==
  [ infos        |-> { B2 },
    updates      |-> { u \in Updates : /\ u.nonce = <<NonceA>>
                                       /\ u.height = 1 /\ u.broadhash = "h1" },
    events       |-> { <<NonceA, TRUE>> },
    learnsPeers  |-> ({SeedNonce} \X { << <<A1>> >>, << <<A1>>, <<B2>> >>,
                                       << <<B1>> >>, Undef })
                       \cup ({NonceA} \X { << <<B1>> >>, << <<B2>>, <<A1>> >>,
                                             << <<SeedInfo(<<1, 0, 0>>)>> >> })
                       \cup ({NonceB} \X { << <<A1>> >>, Undef }),
    learnsStatus |-> { <<NonceA, [height |-> 1, broadhash |-> "h1"]>> },
    httpActive   |-> { <<NonceA, TRUE>> } ]

\* a registered Peer learns its node's peer list, once
StableLearnsPeers(nonce, list) ==
  /\ MapHas(peers, nonce)
  /\ MapGet(peers, nonce).peers = <<>>
  /\ PeerLearnsPeers(nonce, list)

\* a discovery tick that finds every registered Peer's list known
StableUpdatePeers ==
  /\ \A i \in 1 .. Len(peers) : peers[i].value.peers # <<>>
  /\ stableTicks < MaxTicks
  /\ updatePeers
  /\ stableTicks' = stableTicks + 1
  /\ UNCHANGED tick

StableNext ==
  \/ \E e \in StableInputs.learnsPeers : StableLearnsPeers(e[1], e[2])
  \/ StableUpdatePeers
  \/ \E peer \in StableInputs.infos : AddPeer(peer)
  \/ \E update \in StableInputs.updates : HandleStatusUpdate(update)
  \/ \E e \in StableInputs.events : WsServerConnectionChanged(e[1], e[2])
  \/ GetBestHTTPPeer
  \/ GetBestHeight
  \/ \E e \in StableInputs.learnsStatus : PeerLearnsStatus(e[1], e[2])
  \/ \E e \in StableInputs.httpActive : PeerHttpActive(e[1], e[2])

SpecStable == Init /\ [][StableNext]_vars

----------------------------------------------------------------------------
(* updatePeers statement by statement.  updatePeers, addPeer and the event  *)
(* handlers are synchronous functions that one event loop calls: the timer  *)
(* callback and the socket server's callbacks start only when no callback   *)
(* is running.  The frame of the call in progress keeps the registry and    *)
(* the best height it started with, to compare the outcome with.            *)

\* Idle that lets a callback start while updatePeers is running
AlwaysIdle == TRUE

\* no callback is running
Idle == tick = <<>>

\* the tick is at the statement pc
At(pc) == tick # <<>> /\ tick[1].pc = pc

\* lines 78-85: peerList
TickStage ==
  /\ Idle
  /\ tick' = << [ pc       |-> "scan",
                  start    |-> peers,
                  best     |-> [height |-> bestHeight, broadhash |-> bestBroadhash],
                  peerList |-> PeerList(peers),
                  newPeers |-> <<>>,
                  todo     |-> <<>> ] >>
  /\ last' = [op |-> "tick", pc |-> "stage"]
  /\ UNCHANGED <<peers, bestHeight, bestBroadhash, stableTicks>>

\* lines 87-92: the best height and broadhash
TickScan ==
  /\ At("scan")
  /\ LET best == ScanBest(MapValues(peers),
                          [height |-> bestHeight, broadhash |-> bestBroadhash])
     IN  /\ bestHeight' = best.height
         /\ bestBroadhash' = best.broadhash
  /\ tick' = << [tick[1] EXCEPT !.pc = "discover"] >>
  /\ last' = [op |-> "tick", pc |-> "scan"]
  /\ UNCHANGED <<peers, stableTicks>>

\* lines 95-112: newPeers
TickDiscover ==
  /\ At("discover")
  /\ LET newPeers == Discover(peers, tick[1].peerList, <<>>)
     IN  tick' = << [tick[1] EXCEPT !.pc = "connect",
                                    !.newPeers = newPeers,
                                    !.todo = newPeers] >>
  /\ last' = [op |-> "tick", pc |-> "discover"]
  /\ UNCHANGED <<peers, bestHeight, bestBroadhash, stableTicks>>

\* lines 115-117: one turn of the loop that calls addPeer
TickConnect ==
  /\ At("connect")
  /\ tick[1].todo # <<>>
  /\ peers' = addPeer(peers, Head(tick[1].todo))
  /\ tick' = << [tick[1] EXCEPT !.todo = Tail(tick[1].todo)] >>
  /\ last' = [op |-> "tick", pc |-> "connect"]
  /\ UNCHANGED <<bestHeight, bestBroadhash, stableTicks>>

\* lines 119-146: the loop has ended; updatePeers logs and returns
TickReturn ==
  /\ At("connect")
  /\ tick[1].todo = <<>>
  /\ tick' = <<>>
  /\ last' = [op |-> "updatePeers", newPeers |-> tick[1].newPeers]
  /\ UNCHANGED <<peers, bestHeight, bestBroadhash, stableTicks>>

\* the inputs of SpecSteps: callbacks of every kind that could change what a
\* tick reads or writes
StepsInputs ==
  [ infos        |-> { B2 },
    updates      |-> { u \in Updates : /\ u.nonce = <<NonceA>>
                                       /\ u.height = 2 /\ u.broadhash = "h1" },
    events       |-> { <<NonceA, TRUE>> },
    learnsPeers  |-> { <<SeedNonce, << <<A1>>, <<B1>> >> >>,
                       <<NonceA, << <<B1>> >> >> },
    learnsStatus |-> { <<SeedNonce, [height |-> 1, broadhash |-> "h2"]>> },
    httpActive   |-> { <<NonceA, TRUE>> } ]

StepsNext ==
  \/ TickStage
  \/ TickScan
  \/ TickDiscover
  \/ TickConnect
  \/ TickReturn
  \/ Idle /\ \E peer \in StepsInputs.infos : AddPeer(peer)
  \/ Idle /\ \E update \in StepsInputs.updates : HandleStatusUpdate(update)
  \/ Idle /\ \E e \in StepsInputs.events : WsServerConnectionChanged(e[1], e[2])
  \/ Idle /\ GetBestHTTPPeer
  \/ Idle /\ GetBestHeight
  \/ Idle /\ \E e \in StepsInputs.learnsPeers : PeerLearnsPeers(e[1], e[2])
  \/ Idle /\ \E e \in StepsInputs.learnsStatus : PeerLearnsStatus(e[1], e[2])
  \/ Idle /\ \E e \in StepsInputs.httpActive : PeerHttpActive(e[1], e[2])

SpecSteps == Init /\ [][StepsNext]_vars

----------------------------------------------------------------------------
(* Properties *)

\* the value getBestHeight() returns
getBestHeight == bestHeight

\* the peers with a status
WithStatus == { i \in 1 .. Len(peers) : peers[i].value.status # <<>> }

\* C1: getBestHeight() starts at 0 and no step ever lowers it, whatever the
\* peers report afterwards.
C1_BestHeightNeverDecreases ==
  /\ getBestHeight = 0
  /\ [][bestHeight' >= bestHeight]_vars

\* C1 witness: after a tick the best height is above the height every
\* registered peer now reports.
C1_Witness ==
  /\ last.op = "updatePeers"
  /\ Len(peers) >= 2
  /\ WithStatus = 1 .. Len(peers)
  /\ \A i \in WithStatus : peers[i].value.status[1].height < getBestHeight

\* handleStatusUpdate hands the update to a registered peer
Delivers(update) == ~NoNonce(update) /\ MapHas(peers, update.nonce[1])

\* C2 as stated: a status update that reaches a registered peer with a height
\* above the best height makes getBestHeight() return that height at once.
C2_StatusUpdateRaisesBestHeight ==
  [][\A update \in Updates :
       (/\ last'.op = "handleStatusUpdate"
        /\ HandleStatusUpdate(update)
        /\ Delivers(update)
        /\ update.height > getBestHeight)
       => getBestHeight' = update.height]_vars

\* C2 amended: handleStatusUpdate never changes the best height; it is the
\* next discovery tick that raises it, to at least the height of every status
\* the registered peers then hold.
C2_BestHeightFollowsAtTick ==
  [][/\ (last'.op = "handleStatusUpdate" => getBestHeight' = getBestHeight)
     /\ (last'.op = "updatePeers" =>
          \A i \in WithStatus : getBestHeight' >= peers[i].value.status[1].height)]_vars

\* C2 witness: a status update has reached a registered peer, its height is
\* above the best height, and getBestHeight() still returns the old value.
C2_Witness ==
  /\ last.op = "handleStatusUpdate"
  /\ Delivers(last)
  /\ MapGet(peers, last.nonce[1]).status[1].height > getBestHeight

\* the nonce holds "monitoring" somewhere
HasMarker(nonce) ==
  \E i \in 1 .. Len(nonce) - Len(Marker) + 1 :
    SubSeq(nonce, i, i + Len(Marker) - 1) = Marker

\* the version is at least the configured minimum
VersionOk(peer) == VersionGte(peer.version, config.minVersion.gte)

\* addPeer has no reason to turn the candidate down, but for its being known
Admissible(peer) ==
  peer.nonce # ownNode.nonce /\ ~HasMarker(peer.nonce) /\ VersionOk(peer)

\* the entries of the map m that are keyed by nonce
Entries(m, nonce) == { i \in 1 .. Len(m) : m[i].key = nonce }

\* the places of list that hold a candidate with this nonce
Places(list, nonce) == { i \in 1 .. Len(list) : list[i].nonce = nonce }

\* C3: the registry never holds the own nonce nor a nonce with "monitoring" in
\* it, and addPeer leaves the registry as it is for such a candidate.
C3_NoOwnNoMonitoring ==
  /\ [](\A i \in 1 .. Len(peers) :
          peers[i].key # ownNode.nonce /\ ~HasMarker(peers[i].key))
  /\ [][\A peer \in DiscoveryInputs.infos :
          (/\ last'.op = "addPeer"
           /\ last'.nonce = peer.nonce
           /\ (peer.nonce = ownNode.nonce \/ HasMarker(peer.nonce))
           /\ AddPeer(peer))
          => peers' = peers]_vars

\* C3 witness: a tick has handed the own node and a monitoring node to addPeer.
C3_Witness ==
  /\ last.op = "updatePeers"
  /\ Places(last.newPeers, ownNode.nonce) # {}
  /\ Places(last.newPeers, NonceMon) # {}
  /\ Len(peers) >= 2

\* C4: addPeer with a registered nonce changes nothing, a tick changes no
\* entry that is there, and no nonce has two entries.
C4_AddPeerIdempotent ==
  /\ [](\A nonce \in Nonces : Cardinality(Entries(peers, nonce)) <= 1)
  /\ [][/\ ((last'.op = "addPeer" /\ Entries(peers, last'.nonce) # {})
             => peers' = peers)
         /\ (last'.op = "updatePeers"
             => /\ Len(peers') >= Len(peers)
                /\ SubSeq(peers', 1, Len(peers)) = peers)]_vars

\* C4 witness: addPeer was called for a nonce whose Peer has already learnt
\* its node's peers, so it was registered before the call.
C4_Witness ==
  /\ last.op = "addPeer"
  /\ Entries(peers, last.nonce) # {}
  /\ MapGet(peers, last.nonce).peers # <<>>
  /\ MapGet(peers, last.nonce).options.ip = Addr2.ip

\* C5: addPeer with a version below the minimum changes nothing; whatever is
\* registered, by the constructor, by a call or by a tick, came with a version
\* that is at least the minimum, and holds the data it came with.
C5_VersionGated ==
  /\ [](last.op = "constructor" =>
          ((~VersionOk(last.seedNode) => peers = <<>>)
           /\ (\A i \in 1 .. Len(peers) :
                 peers[i].key = last.seedNode.nonce /\ VersionOk(last.seedNode))))
  /\ [][/\ \A peer \in DiscoveryInputs.infos :
              ((last'.op = "addPeer" /\ last'.nonce = peer.nonce /\ AddPeer(peer))
               => ((~VersionOk(peer) => peers' = peers)
                   /\ (peers' # peers => VersionOk(peer))))
         /\ (last'.op = "updatePeers"
             => (\A j \in Len(peers) + 1 .. Len(peers') :
                  \E i \in 1 .. Len(last'.newPeers) :
                    /\ last'.newPeers[i].nonce = peers'[j].key
                    /\ last'.newPeers[i].ip = peers'[j].value.options.ip
                    /\ VersionOk(last'.newPeers[i])))]_vars

\* C5 witness: a tick has handed a candidate with too old a version to
\* addPeer, and its nonce is not registered.
C5_Witness ==
  /\ last.op = "updatePeers"
  /\ \E i \in 1 .. Len(last.newPeers) : last.newPeers[i] = AOld
  /\ Entries(peers, NonceA) = {}

\* the nonces in the peer list of the registered peer at place i
ReportedBy(m, i) ==
  { m[i].value.peers[k][1].nonce :
      k \in { k \in 1 .. Len(m[i].value.peers) : m[i].value.peers[k] # <<>> } }

\* the registered peers whose list names the nonce
Reporters(m, nonce) == { i \in 1 .. Len(m) : nonce \in ReportedBy(m, i) }

RECURSIVE ReachWithin(_)
\* the nonces within k hops of the seed node, along the peer lists
ReachWithin(k) ==
  IF k = 0 THEN { SeedNonce } \cap MapKeys(peers)
  ELSE LET near == ReachWithin(k - 1)
       IN  near \cup UNION { ReportedBy(peers, i) :
                               i \in { i \in 1 .. Len(peers) : peers[i].key \in near } }

\* C6: under a stable topology with admissible peers only, after k ticks every
\* peer within k hops of the seed node is registered.
C6_Convergence ==
  \A nonce \in ReachWithin(stableTicks) : Entries(peers, nonce) # {}

\* C6 witness: the seed names a, a names b, and the second tick has
\* registered b, so that the registry holds the seed, a and b.
C6_Witness ==
  /\ stableTicks = 2
  /\ last.op = "updatePeers"
  /\ last.newPeers = <<B1>>
  /\ [i \in 1 .. Len(peers) |-> peers[i].key] = <<SeedNonce, NonceA, NonceB>>
  /\ peers[1].value.peers = << <<A1>> >>
  /\ peers[2].value.peers = << <<B1>> >>
  /\ peers[3].value.options.ip = B1.ip

\* the first candidate with this nonce in the peer list of a tick
FirstReport(m, nonce) ==
  PeerList(m)[CHOOSE i \in Places(PeerList(m), nonce) :
                \A j \in Places(PeerList(m), nonce) : i <= j]

\* C7 as stated, for candidates that are neither the own node nor a
\* monitoring node: when two registered peers report a nonce that is not
\* registered, the tick calls addPeer for it once and the registry then holds
\* one entry for it, whatever the reports carry.
C7_OneAdmissionForAnyData ==
  [][last'.op = "updatePeers" =>
       \A nonce \in Nonces :
         (/\ Cardinality(Reporters(peers, nonce)) >= 2
          /\ Entries(peers, nonce) = {}
          /\ nonce # ownNode.nonce /\ ~HasMarker(nonce))
         => /\ Cardinality(Places(last'.newPeers, nonce)) = 1
            /\ Cardinality(Entries(peers', nonce)) = 1]_vars

\* C7 amended: when two registered peers report a nonce that is not
\* registered, the tick calls addPeer for it at most once, and once if it is
\* not the own nonce, with the first report in the order of the registry; the
\* registry then holds one entry for it, with the data of that report, if
\* that report is admissible, and none if it is not.
C7_OneCallFirstReportDecides ==
  [][last'.op = "updatePeers" =>
       \A nonce \in Nonces :
         (Cardinality(Reporters(peers, nonce)) >= 2 /\ Entries(peers, nonce) = {})
         => /\ Cardinality(Places(last'.newPeers, nonce)) <= 1
            /\ nonce # ownNode.nonce =>
                 /\ Cardinality(Places(last'.newPeers, nonce)) = 1
                 /\ \E i \in 1 .. Len(last'.newPeers) :
                      last'.newPeers[i] = FirstReport(peers, nonce)
            /\ Cardinality(Entries(peers', nonce))
                 = IF Admissible(FirstReport(peers, nonce)) THEN 1 ELSE 0
            /\ Admissible(FirstReport(peers, nonce)) =>
                 MapGet(peers', nonce).options.ip = FirstReport(peers, nonce).ip]_vars

\* C7 witness: the seed reports b at one address and a reports b at another;
\* the tick has handed the seed's report to addPeer and b is registered.
C7_Witness ==
  /\ last.op = "updatePeers"
  /\ last.newPeers = <<B1>>
  /\ Len(peers) = 3
  /\ peers[1].value.peers = << <<B1>> >>
  /\ peers[2].value.peers = << <<B2>> >>
  /\ peers[3].value.options = PeerOf(B1).options

\* the height a peer reports, 0 when it has reported none
Reported(peer) == IF peer.status = <<>> THEN 0 ELSE peer.status[1].height

\* the registered peers whose HTTP API is active
HttpPeers == { i \in 1 .. Len(peers) : peers[i].value.httpActive }

\* the places of a shuffled array that hold an HTTP peer of the greatest height
BestPlaces(shuffledPeers) ==
  { i \in 1 .. Len(shuffledPeers) :
      /\ shuffledPeers[i].httpActive
      /\ \A j \in 1 .. Len(shuffledPeers) :
           shuffledPeers[j].httpActive
           => Reported(shuffledPeers[i]) >= Reported(shuffledPeers[j]) }

\* the elements of an array that are HTTP peers, in order
HttpOnly(shuffledPeers) == SelectSeq(shuffledPeers, LAMBDA peer : peer.httpActive)

\* C8: getBestHTTPPeer throws exactly when no registered peer has its HTTP
\* API active, and what it returns is a registered peer with the API active.
C8_ThrowsIffNoHttpPeer ==
  /\ \A shuffledPeers \in Shuffles(MapValues(peers)) :
       LET ret == getBestHTTPPeer(shuffledPeers)
       IN  /\ ret = <<>> <=> HttpPeers = {}
           /\ ret # <<>> =>
                \E i \in HttpPeers : peers[i].value = ret[1]
  /\ last.op = "getBestHTTPPeer" =>
       /\ last.ret = <<>> <=> HttpPeers = {}
       /\ last.ret # <<>> => \E i \in HttpPeers : peers[i].value = last.ret[1]

\* C8 witness: a peer was returned although a peer without the HTTP API
\* reports a greater height.
C8_Witness ==
  /\ last.op = "getBestHTTPPeer"
  /\ last.ret # <<>>
  /\ \E i \in 1 .. Len(peers) :
       /\ ~peers[i].value.httpActive
       /\ Reported(peers[i].value) > Reported(last.ret[1])

\* C9: for every outcome of the shuffle the peer returned reports a height
\* that no HTTP peer exceeds, and the result is the same as without the
\* peers that have no HTTP API.
C9_BestHeightAmongHttpPeers ==
  /\ \A shuffledPeers \in Shuffles(MapValues(peers)) :
       LET ret == getBestHTTPPeer(shuffledPeers)
       IN  /\ ret # <<>> =>
                \A i \in HttpPeers : Reported(ret[1]) >= Reported(peers[i].value)
           /\ ret = getBestHTTPPeer(HttpOnly(shuffledPeers))
  /\ last.op = "getBestHTTPPeer" /\ last.ret # <<>> =>
       \A i \in HttpPeers : Reported(last.ret[1]) >= Reported(peers[i].value)

\* C9 witness: the peer returned reports more than another HTTP peer and less
\* than a peer without the HTTP API.
C9_Witness ==
  /\ last.op = "getBestHTTPPeer"
  /\ last.ret # <<>>
  /\ \E i \in HttpPeers : Reported(peers[i].value) < Reported(last.ret[1])
  /\ \E i \in 1 .. Len(peers) :
       /\ ~peers[i].value.httpActive
       /\ Reported(peers[i].value) > Reported(last.ret[1])

\* C10 as stated: among the HTTP peers of the greatest height, the one that
\* comes first in the shuffled order is returned.
C10_FirstOfTheBestReturned ==
  \A shuffledPeers \in Shuffles(MapValues(peers)) :
    BestPlaces(shuffledPeers) # {} =>
      \E i \in BestPlaces(shuffledPeers) :
        /\ \A j \in BestPlaces(shuffledPeers) : i <= j
        /\ getBestHTTPPeer(shuffledPeers) = <<shuffledPeers[i]>>

\* C10 amended: the scan replaces the record it keeps whenever the height is
\* >= the running maximum, so among the HTTP peers of the greatest height the
\* one that comes last in the shuffled order is returned.
C10_LastOfTheBestReturned ==
  \A shuffledPeers \in Shuffles(MapValues(peers)) :
    BestPlaces(shuffledPeers) # {} =>
      \E i \in BestPlaces(shuffledPeers) :
        /\ \A j \in BestPlaces(shuffledPeers) : i >= j
        /\ getBestHTTPPeer(shuffledPeers) = <<shuffledPeers[i]>>

\* C10 witness: a peer was returned while two HTTP peers report the greatest
\* height and a third HTTP peer reports less.
C10_Witness ==
  /\ last.op = "getBestHTTPPeer"
  /\ last.ret # <<>>
  /\ Cardinality(BestPlaces(MapValues(peers))) = 2
  /\ Cardinality(HttpPeers) = 3

\* the outcomes of the shuffle for which the registered peer at place i is
\* returned
ReturnedFor(i) ==
  { shuffledPeers \in Shuffles(MapValues(peers)) :
      getBestHTTPPeer(shuffledPeers) = <<peers[i].value>> }

\* every registered peer has its HTTP API active and all report one height
AllTied ==
  /\ HttpPeers = 1 .. Len(peers)
  /\ \A i, j \in 1 .. Len(peers) : Reported(peers[i].value) = Reported(peers[j].value)

\* C11: when the HTTP peers of the greatest height are several, each of them
\* is returned for some outcome of the shuffle and all of them for the same
\* number of outcomes, wherever they stand in the registry; with three HTTP
\* peers of one height each is returned for 2 of the 6 outcomes.
C11_NoBiasAmongTheBest ==
  /\ \A i, j \in BestPlaces(MapValues(peers)) :
       /\ ReturnedFor(i) # {}
       /\ Cardinality(ReturnedFor(i)) = Cardinality(ReturnedFor(j))
  /\ (Len(peers) = 3 /\ AllTied) =>
       /\ Cardinality(Shuffles(MapValues(peers))) = 6
       /\ \A i \in 1 .. 3 : Cardinality(ReturnedFor(i)) = 2

\* C11 witness: three HTTP peers report one height above 0, and the call
\* has returned the one registered first.
C11_Witness ==
  /\ last.op = "getBestHTTPPeer"
  /\ Len(peers) = 3
  /\ AllTied
  /\ Reported(peers[1].value) > 0
  /\ last.ret = <<peers[1].value>>

\* the update names no nonce, the empty nonce, or a nonce that is not registered
Unaddressed(m, update) ==
  \/ update.nonce = <<>>
  \/ update.nonce[1] = <<>>
  \/ \A i \in 1 .. Len(m) : m[i].key # update.nonce[1]

\* C12: handleStatusUpdate for an update without a nonce, with the empty
\* nonce, or with a nonce that is not registered returns normally and changes
\* nothing: the registry with every record's status and flags, the best height
\* and the best broadhash stay as they are, and no peer is added.
C12_UnaddressedUpdateChangesNothing ==
  [][(last'.op = "handleStatusUpdate" /\ Unaddressed(peers, last'))
       => /\ peers' = peers
          /\ bestHeight' = bestHeight
          /\ bestBroadhash' = bestBroadhash]_vars

\* C12 witness: an update for a nonce that is not registered has been handled
\* while two peers are registered, one of them with a status.
C12_Witness ==
  /\ last.op = "handleStatusUpdate"
  /\ last.nonce = <<NonceB>>
  /\ Entries(peers, NonceB) = {}
  /\ Len(peers) = 2
  /\ WithStatus # {}

\* the record b is the record a but for the inbound-connection flag
SameButConnected(a, b) ==
  /\ b.options = a.options
  /\ b.status = a.status
  /\ b.peers = a.peers
  /\ b.httpActive = a.httpActive

\* C13: wsServerConnectionChanged for a nonce that is not registered changes
\* nothing; for a registered nonce it sets that record's inbound-connection
\* flag to the value given and leaves the keys of the registry, every status,
\* every other record, the best height and the best broadhash as they are.
C13_ConnectionChangeSetsOneFlag ==
  [][last'.op = "wsServerConnectionChanged" =>
       /\ bestHeight' = bestHeight
       /\ bestBroadhash' = bestBroadhash
       /\ Len(peers') = Len(peers)
       /\ (Entries(peers, last'.nonce) = {} => peers' = peers)
       /\ \A i \in 1 .. Len(peers) :
            /\ peers'[i].key = peers[i].key
            /\ IF peers[i].key = last'.nonce
               THEN /\ peers'[i].value.wsServerConnected = last'.connected
                    /\ SameButConnected(peers[i].value, peers'[i].value)
               ELSE peers'[i].value = peers[i].value]_vars

\* C13 witness: a disconnect has been handled for a registered peer that has
\* a status, while another peer is still connected.
C13_Witness ==
  /\ last.op = "wsServerConnectionChanged"
  /\ ~last.connected
  /\ Entries(peers, last.nonce) # {}
  /\ MapGet(peers, last.nonce).status # <<>>
  /\ ~MapGet(peers, last.nonce).wsServerConnected
  /\ \E i \in 1 .. Len(peers) : peers[i].value.wsServerConnected

\* C14: no step removes or replaces an entry of the registry: every entry
\* keeps its place, its nonce and the Peer it was registered with, whatever
\* ticks, status updates, connects, disconnects and queries follow, so the
\* set of registered nonces only grows.
C14_StickyMembership ==
  [][/\ Len(peers') >= Len(peers)
     /\ MapKeys(peers) \subseteq MapKeys(peers')
     /\ \A i \in 1 .. Len(peers) :
          /\ peers'[i].key = peers[i].key
          /\ peers'[i].value.options = peers[i].value.options]_vars

\* C14 witness: a disconnect has been handled for a peer that never reported
\* a status and has no HTTP API, and it is still one of three registered.
C14_Witness ==
  /\ last.op = "wsServerConnectionChanged"
  /\ ~last.connected
  /\ Len(peers) = 3
  /\ Entries(peers, last.nonce) # {}
  /\ MapGet(peers, last.nonce).status = <<>>
  /\ ~MapGet(peers, last.nonce).httpActive
  /\ ~MapGet(peers, last.nonce).wsServerConnected

\* C15 as stated: the newPeers a tick hands to addPeer hold no candidate with
\* the own nonce, no nonce twice, and no nonce that was registered when the
\* tick started.
C15_NewPeersWithoutOwnNonce ==
  [][last'.op = "updatePeers" =>
       /\ Places(last'.newPeers, ownNode.nonce) = {}
       /\ \A nonce \in Nonces : Cardinality(Places(last'.newPeers, nonce)) <= 1
       /\ \A i \in 1 .. Len(last'.newPeers) :
            Entries(peers, last'.newPeers[i].nonce) = {}]_vars

\* the status of the registered peer at place i
StatusAt(i) == peers[i].value.status[1]

\* C16: the best broadhash changes only in a step that raises the best
\* height, and it is then the broadhash of the peer whose height is the new
\* best height (the first such peer of the registry); a tick in which no peer
\* reports more than the best height, whatever broadhash comes with an equal
\* height, leaves the best height and the best broadhash as they are.
C16_BroadhashFollowsStrictIncrease ==
  [][/\ (bestBroadhash' # bestBroadhash => bestHeight' > bestHeight)
     /\ (bestHeight' > bestHeight =>
          /\ last'.op = "updatePeers"
          /\ \E i \in WithStatus :
               /\ StatusAt(i).height = bestHeight'
               /\ StatusAt(i).broadhash = bestBroadhash'
               /\ \A j \in WithStatus : j < i => StatusAt(j).height < bestHeight')
     /\ ((\A i \in WithStatus : StatusAt(i).height <= bestHeight) =>
          /\ bestHeight' = bestHeight
          /\ bestBroadhash' = bestBroadhash)]_vars

\* C16 witness: after a tick every registered peer reports the best height
\* with a broadhash that is not the best broadhash, which an earlier tick set.
C16_Witness ==
  /\ last.op = "updatePeers"
  /\ bestHeight > 0
  /\ Len(peers) = 2
  /\ WithStatus = 1 .. Len(peers)
  /\ \A i \in WithStatus :
       /\ StatusAt(i).height = bestHeight
       /\ StatusAt(i).broadhash # bestBroadhash

\* the nonces that the registered peers' lists name and the registry lacks
Staged(m) ==
  { nonce \in UNION { ReportedBy(m, i) : i \in 1 .. Len(m) } : Entries(m, nonce) = {} }

\* the nonces that only the nodes of Staged(m) serve: two hops from the
\* registry m
TwoHops(m) ==
  { nonce \in UNION { { Network(via)[k][1].nonce :
                          k \in { k \in 1 .. Len(Network(via)) : Network(via)[k] # <<>> } } :
                      via \in Staged(m) } :
      Entries(m, nonce) = {} /\ nonce \notin Staged(m) }

\* C17: what a tick registers was named in the list of a peer that was
\* registered when the tick started, so a peer two hops away, named only by
\* the node of a peer this tick registers, is not registered by this tick.
C17_NewPeerContributesNextTick ==
  [][last'.op = "updatePeers" =>
       /\ \A j \in Len(peers) + 1 .. Len(peers') : peers'[j].key \in Staged(peers)
       /\ \A nonce \in TwoHops(peers) : Entries(peers', nonce) = {}]_vars

\* C17 witness: the seed names a, whose node serves b; the tick has
\* registered a, and b, two hops away, is not registered.
C17_Witness ==
  /\ last.op = "updatePeers"
  /\ last.newPeers = <<A1>>
  /\ [i \in 1 .. Len(peers) |-> peers[i].key] = <<SeedNonce, NonceA>>
  /\ peers[1].value.peers = Network(SeedNonce)
  /\ peers[2].value.peers = <<>>
  /\ NonceB \in TwoHops(<<peers[1]>>)

\* C18: while a call of updatePeers is in progress no other tick starts and
\* no handler, query or Peer callback runs: only the tick's own statements
\* step, and peers changes by its addPeer calls alone.  When it returns, the
\* best height, the best broadhash and the registry are what updatePeers
\* computes, in one piece, from the registry it started with.
C18_TickRunsToCompletion ==
  [][/\ (tick # <<>> =>
          /\ last'.op \in {"tick", "updatePeers"}
          /\ (last'.op = "tick" => last'.pc # "stage")
          /\ (peers' # peers => last'.op = "tick" /\ last'.pc = "connect"))
     /\ ((tick # <<>> /\ tick' = <<>>) =>
          LET frame == tick[1]
              best  == ScanBest(MapValues(frame.start), frame.best)
          IN  /\ last'.op = "updatePeers"
              /\ last'.newPeers = NewPeers(frame.start)
              /\ peers' = Connect(frame.start, NewPeers(frame.start))
              /\ bestHeight' = best.height
              /\ bestBroadhash' = best.broadhash)]_vars

\* C18 witness: a tick that staged two candidates has returned, with both
\* registered and the best height raised.
C18_Witness ==
  /\ last.op = "updatePeers"
  /\ tick = <<>>
  /\ Len(last.newPeers) = 2
  /\ Len(peers) = 3
  /\ bestHeight = 1

\* the heights the registered peers report
Heights == { StatusAt(i).height : i \in WithStatus }

\* C19: the best height is 0 at the start and changes in discovery ticks
\* only; after a tick it is at least the height of every status a registered
\* peer held when the tick started, and it is the value it had before or one
\* of those heights, the greatest of them all: never a value no peer
\* reported.
C19_BestHeightIsAReportedMaximum ==
  /\ bestHeight = 0
  /\ [][/\ (last'.op # "updatePeers" => bestHeight' = bestHeight)
         /\ (last'.op = "updatePeers" =>
              /\ \A h \in Heights : bestHeight' >= h
              /\ bestHeight' \in Heights \cup {bestHeight}
              /\ bestHeight' >= bestHeight)]_vars

\* C19 witness: after a tick the best height is the height the second
\* registered peer reports, above what the first reports and above 0.
C19_Witness ==
  /\ last.op = "updatePeers"
  /\ WithStatus = {1, 2}
  /\ 0 < StatusAt(1).height
  /\ StatusAt(1).height < StatusAt(2).height
  /\ bestHeight = StatusAt(2).height

\* the keys of the registry, in order
KeysInOrder == [i \in 1 .. Len(peers) |-> peers[i].key]

\* C20: the constructor registers the seed node, when its version passes,
\* under the empty nonce and registers nothing else; as handleStatusUpdate
\* takes the empty nonce for no nonce, no call of it, whatever nonce the
\* update carries, changes the record under the empty nonce, its status
\* least of all.
C20_SeedNeverUpdatedByStatusEvent ==
  /\ [](last.op = "constructor" =>
          KeysInOrder = IF VersionOk(last.seedNode) THEN <<SeedNonce>> ELSE <<>>)
  /\ [][last'.op = "handleStatusUpdate" =>
          \A i \in 1 .. Len(peers) :
            peers[i].key = SeedNonce =>
              /\ peers'[i].key = SeedNonce
              /\ peers'[i].value.status = peers[i].value.status
              /\ peers'[i].value = peers[i].value]_vars

\* C20 witness: an update with the empty nonce has been handled while the
\* seed is registered under the empty nonce, and the seed has no status.
C20_Witness ==
  /\ last.op = "handleStatusUpdate"
  /\ last.nonce = <<SeedNonce>>
  /\ Len(peers) = 2
  /\ peers[1].key = SeedNonce
  /\ peers[1].value.status = <<>>
  /\ peers[2].value.status # <<>>

====
